---- MODULE Spec2Model ----
(***************************************************************************)
(* Model of PPTXWatermarkRemover (src/watermark_remover.py) and of its     *)
(* driver (src/app.py).                                                    *)
(*                                                                         *)
(* Strings are sequences of characters over a small alphabet, so that      *)
(* str.lower(), the substring test `in` and str.strip() are computed and   *)
(* not assumed.  The presentation is a record of three lists of shape      *)
(* trees (masters, layouts, slides); a shape tree is the sequence of the   *)
(* shape elements of its spTree.                                           *)
(*                                                                         *)
(* Shape proxies.  The code identifies shapes with id(shape).  The shape   *)
(* collection of python-pptx builds a NEW proxy object for every element   *)
(* on every iteration (slide.shapes.__iter__ calls the shape factory), and *)
(* CPython's id() is unique only among objects alive at the same time.     *)
(* The ids the code stores therefore belong to proxies that are dead when  *)
(* they are compared (an id may or may not be reused by a later proxy), or *)
(* are compared with ids of proxies that live at the same time (never      *)
(* equal).  The first case is a nondeterministic choice, the second is     *)
(* determined; see IdMatchOutcomes and SnapshotIdInCollection.             *)
(***************************************************************************)
EXTENDS Integers, Sequences, FiniteSets, TLC

VARIABLES
    pc,                    \* position of the driver / of clean_pptx_from_target_domain
    idx,                   \* index of the next container of the running loop
    doc,                   \* prs: the presentation held in memory
    input,                 \* the presentation as it was opened by the running call
    saved,                 \* <<the presentation last written by prs.save>>, or <<>>
    links_removed,         \* self.links_removed
    shapes_removed,        \* self.shapes_removed
    corner_images_removed, \* self.corner_images_removed
    ret,                   \* the triple returned by the last completed call, or <<>>
    calls,                 \* number of calls of clean_pptx_from_target_domain started
    base,                  \* the three counters as they were when the running call started
    reclean,               \* TRUE when the running call reads the output of an earlier call
    visited,               \* the containers handed to a processing function by the running call
    caught,                \* number of failures caught by the handlers of the running call
    stripIn,               \* text body given to _strip_text_run_links (function-level runs)
    stripOut               \* <<its result>>, or <<>> before the call

vars == <<pc, idx, doc, input, saved, links_removed, shapes_removed,
          corner_images_removed, ret, calls, base, reclean, visited, caught,
          stripIn, stripOut>>

-----------------------------------------------------------------------------
(* Bounds of the model *)

MaxShapes == 2      \* shapes of one presentation, all containers together
MaxCalls == 2       \* calls of clean_pptx_from_target_domain in one behaviour
NumMasters == 2     \* slide masters of a presentation
NumLayouts == 1     \* slide layouts of a presentation
NumSlides == 1      \* slides of a presentation
MaxRuns == 2        \* runs of one text body in the function-level runs
MaxParas == 2       \* paragraphs of one text body in the function-level runs

-----------------------------------------------------------------------------
(* Strings *)

\* str.lower() on one character of the alphabet
LowerChar(c) ==
    CASE c = "G" -> "g"
      [] c = "A" -> "a"
      [] OTHER -> c

\* str.lower()
Lower(s) == [i \in 1..Len(s) |-> LowerChar(s[i])]

\* Python's `needle in hay` on str
Contains(needle, hay) ==
    \E i \in 1..(Len(hay) - Len(needle) + 1) :
        SubSeq(hay, i, i + Len(needle) - 1) = needle

RECURSIVE LStrip(_)
LStrip(s) == IF s # <<>> /\ Head(s) = " " THEN LStrip(Tail(s)) ELSE s

RECURSIVE RStrip(_)
RStrip(s) ==
    IF s # <<>> /\ s[Len(s)] = " " THEN RStrip(SubSeq(s, 1, Len(s) - 1)) ELSE s

\* str.strip()
Strip(s) == RStrip(LStrip(s))

-----------------------------------------------------------------------------
(* Configuration: PPTXWatermarkRemover.__init__ *)

\* the target_domain argument ("gamma.app" by default), as given
TargetDomainArg == <<"g", "a">>

\* self.target_domain = target_domain.lower()
target_domain == Lower(TargetDomainArg)

\* self.corner_threshold = 0.7, as the fraction ThresholdNum / ThresholdDen
ThresholdNum == 7
ThresholdDen == 10

\* prs.slide_width, prs.slide_height (_slide_size)
SlideWidth == 10
SlideHeight == 10

-----------------------------------------------------------------------------
(* Hyperlink addresses and run texts used to build the inputs *)

AddrTarget == <<"x", "g", "a">>          \* "https://gamma.app/x"
AddrTargetUpper == <<"G", "A", "x">>     \* "GAMMA.APP/x"
AddrOther == <<"g", "x", "a">>           \* some other site
AddrEmpty == <<>>                        \* an empty address

TextWords == <<" ", "m", " ">>           \* visible text
TextSpace == <<" ">>                     \* only whitespace
TextEmpty == <<>>

\* a hyperlink as the code reads it: st = "none" (no hyperlink, the address
\* reads None), "set" (the address reads `address`), or "broken" (reading it
\* raises: a dangling relationship id, or click_action of a group shape)
NoLink == [st |-> "none", address |-> <<>>]
BrokenLink == [st |-> "broken", address |-> <<>>]
Link(a) == [st |-> "set", address |-> a]

\* a run: rid is the identity of its <a:r> element
Run(rid, text, link) == [rid |-> rid, text |-> text, link |-> link]

\* a shape element.  eid: identity of the element; kind: "picture", "autoshape"
\* or "group"; placed: left and top are set (they read None otherwise); click:
\* the click hyperlink; frame: "ok" (has a text frame), "none" (no text_frame
\* attribute) or "raises" (reading text_frame raises); paras: the paragraphs
\* of the text body, each a sequence of runs.
Shape(kind, placed, left, top, click, frame, paras) ==
    [eid |-> <<>>, kind |-> kind, placed |-> placed, left |-> left, top |-> top,
     click |-> click, frame |-> frame, paras |-> paras]

LinkedParas ==
    << <<Run(<<1, 1>>, TextWords, Link(AddrTarget)),
         Run(<<1, 2>>, TextSpace, Link(AddrTargetUpper))>>,
       <<Run(<<2, 1>>, TextWords, Link(AddrOther))>> >>

\* the shapes the input presentations are built from, by name
ShapeNamed(name) ==
    CASE name = "LinkedAutoShape" ->
            Shape("autoshape", TRUE, 1, 1, Link(AddrTargetUpper), "ok",
                  << <<Run(<<1, 1>>, TextWords, Link(AddrTarget))>> >>)
      [] name = "TextShape" ->
            Shape("autoshape", TRUE, 1, 1, Link(AddrOther), "ok", LinkedParas)
      [] name = "FaultyShape" ->
            Shape("autoshape", TRUE, 1, 1, NoLink, "raises", <<>>)
      [] name = "GroupShape" ->
            Shape("group", TRUE, 1, 1, BrokenLink, "none", <<>>)
      [] name = "CornerPictureLinked" ->
            Shape("picture", TRUE, 7, 9, Link(AddrTarget), "none", <<>>)
      [] name = "CornerPicturePlain" ->
            Shape("picture", TRUE, 8, 7, Link(AddrEmpty), "none", <<>>)
      [] name = "EdgePictureLinked" ->
            Shape("picture", TRUE, 7, 6, Link(AddrTargetUpper), "none", <<>>)
      [] name = "UnplacedPictureLinked" ->
            Shape("picture", FALSE, 0, 0, Link(AddrTarget), "none", <<>>)
      [] name = "CornerAutoShapeLinked" ->
            Shape("autoshape", TRUE, 9, 9, Link(AddrTarget), "ok", <<>>)

\* shapes found in slide masters and slide layouts, and on slides
MasterPalette == {"LinkedAutoShape", "TextShape", "FaultyShape", "GroupShape"}
SlidePalette == {"CornerPictureLinked", "CornerPicturePlain", "EdgePictureLinked",
                 "UnplacedPictureLinked", "CornerAutoShapeLinked", "TextShape"}

-----------------------------------------------------------------------------
(* Presentations *)

Stages == {"masters", "layouts", "slides"}

\* number of slide masters, slide layouts and slides of a presentation
NumContainers == [masters |-> NumMasters, layouts |-> NumLayouts, slides |-> NumSlides]

EmptyDoc == [st \in Stages |-> [i \in 1..NumContainers[st] |-> <<>>]]

PaletteOf(st) == IF st = "slides" THEN SlidePalette ELSE MasterPalette

\* the containers of a presentation
Slots == UNION {{<<st, i>> : i \in 1..NumContainers[st]} : st \in Stages}

\* the presentations obtained from d by appending one shape to one container
Extend(d) ==
    UNION { { [d EXCEPT ![slot[1]][slot[2]] = Append(@, sh)] : sh \in PaletteOf(slot[1]) } :
            slot \in Slots }

RECURSIVE DocsOfSize(_)
DocsOfSize(n) ==
    IF n = 0 THEN {EmptyDoc} ELSE UNION {Extend(d) : d \in DocsOfSize(n - 1)}

\* the input presentations, as names: every one of at most MaxShapes shapes
Docs == UNION {DocsOfSize(n) : n \in 0..MaxShapes}

\* the shapes of a presentation given by names
Materialize(d) ==
    [st \in Stages |->
        [i \in 1..Len(d[st]) |->
            [k \in 1..Len(d[st][i]) |-> ShapeNamed(d[st][i][k])]]]

\* Presentation(pptx_path): parsing the file builds one element per shape
Tag(d) ==
    [st \in Stages |->
        [i \in 1..Len(d[st]) |->
            [k \in 1..Len(d[st][i]) |-> [d[st][i][k] EXCEPT !.eid = <<st, i, k>>]]]]

-----------------------------------------------------------------------------
(* _shape_has_target_link, _strip_text_run_links, _is_in_corner *)

\* `h is not None and h.address` and `self.target_domain in h.address.lower()`
\* (lines 136-137, 145-146, 163); a read that raises is caught by the caller
AddressMatches(link) ==
    /\ link.st = "set"
    /\ link.address # <<>>
    /\ Contains(target_domain, Lower(link.address))

\* _shape_has_target_link without line 138: a test that counts nothing
ShapeHasTargetLinkNoCount(shape, links) ==
    [result |-> shape.click.st # "broken" /\ AddressMatches(shape.click),
     links_removed |-> links]

\* _shape_has_target_link(shape) with self.links_removed = links: the result
\* and the counter afterwards.  Every exception (click_action of a group
\* shape, a dangling relationship, a text frame that cannot be read) is
\* swallowed and gives False; the loop over the runs has no effect.
ShapeHasTargetLink(shape, links) ==
    IF shape.click.st # "broken" /\ AddressMatches(shape.click)
    THEN [result |-> TRUE, links_removed |-> links + 1]
    ELSE [result |-> FALSE, links_removed |-> links]

\* the loop of _strip_text_run_links without the test of line 168: every run
\* whose link matches is deleted with its text
RECURSIVE StripRunsDropMatched(_, _, _)
StripRunsDropMatched(runs, k, acc) ==
    IF k > Len(runs) THEN acc
    ELSE IF runs[k].link.st # "broken" /\ AddressMatches(runs[k].link)
    THEN StripRunsDropMatched(runs, k + 1, [acc EXCEPT !.removed = @ + 1])
    ELSE StripRunsDropMatched(runs, k + 1, [acc EXCEPT !.runs = Append(@, runs[k])])

\* the loop over p.runs (a tuple built before the loop) of one paragraph
RECURSIVE StripRuns(_, _, _)
StripRuns(runs, k, acc) ==
    IF k > Len(runs) THEN acc
    ELSE LET r == runs[k] IN
         IF r.link.st = "broken"
         THEN StripRuns(runs, k + 1, [acc EXCEPT !.runs = Append(@, r)])
         ELSE IF AddressMatches(r.link)
         THEN IF Strip(r.text) = <<>>
              THEN StripRuns(runs, k + 1, [acc EXCEPT !.removed = @ + 1])
              ELSE StripRuns(runs, k + 1,
                             [acc EXCEPT !.removed = @ + 1,
                                         !.runs = Append(@, [r EXCEPT !.link = NoLink])])
         ELSE StripRuns(runs, k + 1, [acc EXCEPT !.runs = Append(@, r)])

RECURSIVE StripParas(_, _, _)
StripParas(paras, p, acc) ==
    IF p > Len(paras) THEN acc
    ELSE LET res == StripRuns(paras[p], 1, [runs |-> <<>>, removed |-> acc.removed])
         IN StripParas(paras, p + 1,
                       [paras |-> Append(acc.paras, res.runs), removed |-> res.removed])

\* _strip_text_run_links: the text body afterwards and the number returned
StripTextRunLinks(paras) == StripParas(paras, 1, [paras |-> <<>>, removed |-> 0])

\* _is_in_corner, with right_edge = sw * corner_threshold and
\* bottom_edge = sh * corner_threshold; float(None) raises and gives False
IsInCorner(shape) ==
    /\ shape.placed
    /\ shape.left * ThresholdDen >= SlideWidth * ThresholdNum
    /\ shape.top * ThresholdDen >= SlideHeight * ThresholdNum

-----------------------------------------------------------------------------
(* Shape trees *)

\* spTree.remove(shape._element)
RemoveElement(tree, eid) == SelectSeq(tree, LAMBDA x : x.eid # eid)

\* the element of `shape` after its runs were edited in place
ReplaceElement(tree, shape) ==
    [k \in 1..Len(tree) |-> IF tree[k].eid = shape.eid THEN shape ELSE tree[k]]

\* the loop of _process_shape_tree over list(obj_with_shapes.shapes).
\* acc.failed: an exception left the loop body.
RECURSIVE TreeLoop(_, _, _)
TreeLoop(snapshot, k, acc) ==
    IF k > Len(snapshot) THEN acc
    ELSE LET shape == snapshot[k]
             test == ShapeHasTargetLink(shape, acc.links_removed)
         IN IF test.result
            THEN TreeLoop(snapshot, k + 1,
                          [acc EXCEPT !.shapes = RemoveElement(@, shape.eid),
                                      !.shapes_removed = @ + 1,
                                      !.links_removed = test.links_removed])
            ELSE IF shape.frame = "raises"
            THEN [acc EXCEPT !.failed = TRUE]
            ELSE IF shape.frame = "ok"
            THEN LET res == StripTextRunLinks(shape.paras) IN
                 TreeLoop(snapshot, k + 1,
                          [acc EXCEPT !.shapes = ReplaceElement(@, [shape EXCEPT !.paras = res.paras]),
                                      !.links_removed = @ + res.removed])
            ELSE TreeLoop(snapshot, k + 1, acc)

\* _process_shape_tree without its try block: the exception reaches the caller
ProcessShapeTreeNoCatch(tree, shapes, links) ==
    LET res == TreeLoop(tree, 1, [shapes |-> tree, shapes_removed |-> shapes,
                                  links_removed |-> links, failed |-> FALSE])
    IN [shapes |-> res.shapes, shapes_removed |-> res.shapes_removed,
        links_removed |-> res.links_removed,
        caught |-> FALSE, raised |-> res.failed]

\* _process_shape_tree: the try block around the loop catches every
\* exception, so none reaches the caller (raised = FALSE)
ProcessShapeTree(tree, shapes, links) ==
    LET res == TreeLoop(tree, 1, [shapes |-> tree, shapes_removed |-> shapes,
                                  links_removed |-> links, failed |-> FALSE])
    IN [shapes |-> res.shapes, shapes_removed |-> res.shapes_removed,
        links_removed |-> res.links_removed,
        caught |-> res.failed, raised |-> FALSE]

-----------------------------------------------------------------------------
(* Slides *)

\* `id(shape) in ids_set` for the proxies of list(slide.shapes) in
\* _remove_shapes_by_id, where ids_set holds `stale` ids of proxies that no
\* longer exist: the proxies of the list are alive together, so their ids
\* differ from each other, and each may or may not have been given the
\* address of a dead proxy.  The possible sets of matching positions.
IdMatchOutcomes(n, stale) ==
    {m \in SUBSET (1..n) : Cardinality(m) <= stale}

\* the ids of `ids` (positions of the iteration that produced them) whose
\* proxy is dead when _remove_shapes_by_id runs: every proxy of a finished
\* `for shape in ...` loop except the last one, which `shape` still names
StaleIds(ids, n) == Cardinality(ids \ {n})

\* `id(shape) in [id(s) for s in slide.shapes]` (line 84): `shape` is alive
\* in list(slide.shapes) while the proxies s are created, so no s has its id
SnapshotIdInCollection == FALSE

\* _remove_shapes_by_id with `removed += 1` outside the `if`: every shape of
\* the list is counted
RemoveShapesByIdCountAll(tree, matched) ==
    [shapes |-> SelectSeq([k \in 1..Len(tree) |-> [pos |-> k, shape |-> tree[k]]],
                          LAMBDA x : x.pos \notin matched),
     removed |-> Len(tree)]

\* _remove_shapes_by_id, given the positions whose id matched
RemoveShapesById(tree, matched) ==
    [shapes |-> SelectSeq([k \in 1..Len(tree) |-> [pos |-> k, shape |-> tree[k]]],
                          LAMBDA x : x.pos \notin matched),
     removed |-> Cardinality(matched)]

ShapesOf(cells) == [k \in 1..Len(cells) |-> cells[k].shape]

\* the first loop of _process_slide (lines 64-68)
RECURSIVE CornerScan(_, _, _)
CornerScan(tree, k, acc) ==
    IF k > Len(tree) THEN acc
    ELSE IF tree[k].kind = "picture" /\ IsInCorner(tree[k])
    THEN LET test == ShapeHasTargetLink(tree[k], acc.links_removed) IN
         CornerScan(tree, k + 1,
                    [ids |-> acc.ids \cup {k},
                     corner_has_target_link |-> acc.corner_has_target_link \/ test.result,
                     links_removed |-> test.links_removed])
    ELSE CornerScan(tree, k + 1, acc)

\* the second loop of _process_slide (lines 82-96) over list(slide.shapes)
RECURSIVE SweepLoop(_, _, _)
SweepLoop(snapshot, k, acc) ==
    IF k > Len(snapshot) THEN acc
    ELSE IF ~SnapshotIdInCollection
    THEN SweepLoop(snapshot, k + 1, acc)
    ELSE LET shape == snapshot[k]
             test == ShapeHasTargetLink(shape, acc.links_removed)
         IN IF test.result
            THEN SweepLoop(snapshot, k + 1,
                           [acc EXCEPT !.to_remove_ids = @ \cup {k},
                                       !.links_removed = test.links_removed])
            ELSE IF shape.frame = "raises"
            THEN [acc EXCEPT !.failed = TRUE]
            ELSE IF shape.frame = "ok"
            THEN LET res == StripTextRunLinks(shape.paras) IN
                 SweepLoop(snapshot, k + 1,
                           [acc EXCEPT !.shapes = ReplaceElement(@, [shape EXCEPT !.paras = res.paras]),
                                       !.links_removed = @ + res.removed])
            ELSE SweepLoop(snapshot, k + 1, acc)

\* lines 76-101 of _process_slide: the possible results
LinkSweep(tree, shapes, links, corners) ==
    LET sweep == SweepLoop(tree, 1, [shapes |-> tree, to_remove_ids |-> {},
                                     links_removed |-> links, failed |-> FALSE])
    IN IF sweep.failed
       THEN {[shapes |-> sweep.shapes, shapes_removed |-> shapes,
              links_removed |-> sweep.links_removed,
              corner_images_removed |-> corners, raised |-> TRUE]}
       ELSE {[shapes |-> ShapesOf(RemoveShapesById(sweep.shapes, m).shapes),
              shapes_removed |-> shapes + Cardinality(m),
              links_removed |-> sweep.links_removed,
              corner_images_removed |-> corners, raised |-> FALSE] :
                m \in IdMatchOutcomes(Len(tree), StaleIds(sweep.to_remove_ids, Len(tree)))}

\* _process_slide: the possible results
ProcessSlide(tree, shapes, links, corners) ==
    LET scan == CornerScan(tree, 1, [ids |-> {}, corner_has_target_link |-> FALSE,
                                     links_removed |-> links])
        swept == IF scan.corner_has_target_link
                 THEN {RemoveShapesById(tree, m) :
                         m \in IdMatchOutcomes(Len(tree), StaleIds(scan.ids, Len(tree)))}
                 ELSE {RemoveShapesById(tree, {})}
    IN UNION {LinkSweep(ShapesOf(r.shapes), shapes, scan.links_removed,
                        corners + r.removed) : r \in swept}

-----------------------------------------------------------------------------
(* The driver and clean_pptx_from_target_domain *)

Init ==
    /\ pc = "idle"
    /\ idx = 1
    /\ doc = EmptyDoc
    /\ input = EmptyDoc
    /\ saved = <<>>
    /\ links_removed = 0
    /\ shapes_removed = 0
    /\ corner_images_removed = 0
    /\ ret = <<>>
    /\ calls = 0
    /\ base = <<0, 0, 0>>
    /\ reclean = FALSE
    /\ visited = {}
    /\ caught = 0
    /\ stripIn = <<>>
    /\ stripOut = <<>>

\* the state at line 22 of a call that opens the presentation d
Start(d, again) ==
    /\ calls < MaxCalls
    /\ calls' = calls + 1
    /\ doc' = Tag(d)
    /\ input' = Tag(d)
    /\ idx' = 1
    /\ pc' = "masters"
    /\ base' = <<shapes_removed, links_removed, corner_images_removed>>
    /\ reclean' = again
    /\ visited' = {}
    /\ caught' = 0
    /\ UNCHANGED <<saved, links_removed, shapes_removed, corner_images_removed,
                   ret, stripIn, stripOut>>

\* the first call on a cleaner: clean_pptx_from_target_domain(inp, out)
Open == /\ pc = "idle"
        /\ \E d \in Docs : Start(Materialize(d), FALSE)

\* a further call, on the cleaner in use or on a new one, reading the file
\* the last call wrote
Reopen == /\ pc \in {"done", "fresh"}
          /\ Start(saved[1], TRUE)

\* remove_pptx_watermark (app.py) builds a new cleaner for its call:
\* __init__ sets the three counters to 0
NewCleaner ==
    /\ pc = "done"
    /\ calls < MaxCalls
    /\ pc' = "fresh"
    /\ links_removed' = 0
    /\ shapes_removed' = 0
    /\ corner_images_removed' = 0
    /\ UNCHANGED <<idx, doc, input, saved, ret, calls, base, reclean,
                   visited, caught, stripIn, stripOut>>

\* one iteration of the loop over prs.part.slide_masters (lines 29-33); an
\* exception that reaches the try block ends the loop
MasterStep ==
    /\ pc = "masters"
    /\ IF idx > Len(doc.masters)
       THEN /\ pc' = "layouts"
            /\ idx' = 1
            /\ UNCHANGED <<doc, links_removed, shapes_removed, visited, caught>>
       ELSE LET res == ProcessShapeTree(doc.masters[idx], shapes_removed, links_removed) IN
            /\ doc' = [doc EXCEPT !.masters[idx] = res.shapes]
            /\ shapes_removed' = res.shapes_removed
            /\ links_removed' = res.links_removed
            /\ visited' = visited \cup {<<"masters", idx>>}
            /\ caught' = caught + (IF res.caught \/ res.raised THEN 1 ELSE 0)
            /\ IF res.raised
               THEN pc' = "layouts" /\ idx' = 1
               ELSE pc' = pc /\ idx' = idx + 1
    /\ UNCHANGED <<input, saved, corner_images_removed, ret, calls, base, reclean,
                   stripIn, stripOut>>

\* one iteration of the loop over prs.slide_layouts (lines 35-36); an
\* exception is not caught here and ends the call
LayoutStep ==
    /\ pc = "layouts"
    /\ IF idx > Len(doc.layouts)
       THEN /\ pc' = "slides"
            /\ idx' = 1
            /\ UNCHANGED <<doc, links_removed, shapes_removed, visited, caught>>
       ELSE LET res == ProcessShapeTree(doc.layouts[idx], shapes_removed, links_removed) IN
            /\ doc' = [doc EXCEPT !.layouts[idx] = res.shapes]
            /\ shapes_removed' = res.shapes_removed
            /\ links_removed' = res.links_removed
            /\ visited' = visited \cup {<<"layouts", idx>>}
            /\ caught' = caught + (IF res.caught THEN 1 ELSE 0)
            /\ IF res.raised
               THEN pc' = "aborted" /\ idx' = idx
               ELSE pc' = pc /\ idx' = idx + 1
    /\ UNCHANGED <<input, saved, corner_images_removed, ret, calls, base, reclean,
                   stripIn, stripOut>>

\* one iteration of the loop over prs.slides (lines 39-41)
SlideStep ==
    /\ pc = "slides"
    /\ IF idx > Len(doc.slides)
       THEN /\ pc' = "save"
            /\ idx' = 1
            /\ UNCHANGED <<doc, links_removed, shapes_removed, corner_images_removed,
                           visited>>
       ELSE \E res \in ProcessSlide(doc.slides[idx], shapes_removed, links_removed,
                                    corner_images_removed) :
            /\ doc' = [doc EXCEPT !.slides[idx] = res.shapes]
            /\ shapes_removed' = res.shapes_removed
            /\ links_removed' = res.links_removed
            /\ corner_images_removed' = res.corner_images_removed
            /\ visited' = visited \cup {<<"slides", idx>>}
            /\ IF res.raised
               THEN pc' = "aborted" /\ idx' = idx
               ELSE pc' = pc /\ idx' = idx + 1
    /\ UNCHANGED <<input, saved, ret, calls, base, reclean, caught, stripIn, stripOut>>

\* prs.save(output_path) and the return (lines 43-52)
SaveAndReturn ==
    /\ pc = "save"
    /\ saved' = <<doc>>
    /\ ret' = <<shapes_removed, links_removed, corner_images_removed>>
    /\ pc' = "done"
    /\ UNCHANGED <<idx, doc, input, links_removed, shapes_removed,
                   corner_images_removed, calls, base, reclean, visited, caught,
                   stripIn, stripOut>>

Next ==
    \/ Open
    \/ Reopen
    \/ NewCleaner
    \/ MasterStep
    \/ LayoutStep
    \/ SlideStep
    \/ SaveAndReturn

Spec == Init /\ [][Next]_vars

-----------------------------------------------------------------------------
(* _strip_text_run_links on its own: the text bodies it is given *)

RunTexts == {TextWords, TextSpace, TextEmpty}
RunLinks == {NoLink, BrokenLink, Link(AddrTargetUpper), Link(AddrOther)}
InputRuns == {Run(<<>>, t, l) : t \in RunTexts, l \in RunLinks}

RECURSIVE SumSeq(_)
SumSeq(q) == IF q = <<>> THEN 0 ELSE Head(q) + SumSeq(Tail(q))

\* the text bodies whose paragraph p has sizes[p] runs, from paragraph p on
RECURSIVE BodiesOfSizes(_, _)
BodiesOfSizes(sizes, p) ==
    IF p > Len(sizes) THEN {<<>>}
    ELSE { <<para>> \o rest : para \in [1..sizes[p] -> InputRuns],
                              rest \in BodiesOfSizes(sizes, p + 1) }

\* every text body of at most MaxParas paragraphs and MaxRuns runs
TextBodies ==
    UNION { BodiesOfSizes(sizes, 1) :
              sizes \in { q \in UNION {[1..m -> 0..MaxRuns] : m \in 0..MaxParas} :
                            SumSeq(q) <= MaxRuns } }

\* one <a:r> element per run
TagRuns(b) ==
    [p \in 1..Len(b) |-> [k \in 1..Len(b[p]) |-> [b[p][k] EXCEPT !.rid = <<p, k>>]]]

InitStrip ==
    /\ pc = "strip"
    /\ idx = 1
    /\ doc = EmptyDoc
    /\ input = EmptyDoc
    /\ saved = <<>>
    /\ links_removed = 0
    /\ shapes_removed = 0
    /\ corner_images_removed = 0
    /\ ret = <<>>
    /\ calls = 0
    /\ base = <<0, 0, 0>>
    /\ reclean = FALSE
    /\ visited = {}
    /\ caught = 0
    /\ stripIn \in {TagRuns(b) : b \in TextBodies}
    /\ stripOut = <<>>

\* changed = self._strip_text_run_links(shape)
StripCall ==
    /\ pc = "strip"
    /\ stripOut' = <<StripTextRunLinks(stripIn)>>
    /\ pc' = "stripped"
    /\ UNCHANGED <<idx, doc, input, saved, links_removed, shapes_removed,
                   corner_images_removed, ret, calls, base, reclean, visited,
                   caught, stripIn>>

NextStrip == StripCall

SpecStrip == InitStrip /\ [][NextStrip]_vars

-----------------------------------------------------------------------------
(* Vocabulary of the properties *)

\* the shapes of presentation d, and those of one container
ShapesIn(d, st, i) == {d[st][i][k] : k \in 1..Len(d[st][i])}
AllShapes(d) == UNION {ShapesIn(d, slot[1], slot[2]) : slot \in Slots}
Eids(d) == {sh.eid : sh \in AllShapes(d)}
ShapeCount(d) == Cardinality(Eids(d))

\* the runs of a shape
RunsOf(sh) == UNION {{sh.paras[p][k] : k \in 1..Len(sh.paras[p])} : p \in 1..Len(sh.paras)}

\* an address that contains the target domain, compared case-insensitively
HasTarget(link) == link.st = "set" /\ Contains(target_domain, Lower(link.address))

TargetRuns(sh) == {r \in RunsOf(sh) : HasTarget(r.link)}

\* the pictures in the corner region of slide i of d
CornerPictures(d, i) ==
    {sh \in ShapesIn(d, "slides", i) :
        /\ sh.kind = "picture"
        /\ sh.placed
        /\ sh.left * ThresholdDen >= SlideWidth * ThresholdNum
        /\ sh.top * ThresholdDen >= SlideHeight * ThresholdNum}

\* slide i of d has a corner picture that carries a target-domain click link
CornerLinked(d, i) == \E sh \in CornerPictures(d, i) : HasTarget(sh.click)

\* the sum of the values of a function with a finite domain
RECURSIVE SumFn(_)
SumFn(fn) ==
    IF DOMAIN fn = {} THEN 0
    ELSE LET x == CHOOSE y \in DOMAIN fn : TRUE
         IN fn[x] + SumFn([z \in DOMAIN fn \ {x} |-> fn[z]])

Returned == pc = "done"

\* the running call started with all three counters at 0
FreshCounters == base = <<0, 0, 0>>

\* what the call that just returned added to the three counters
CallDelta == <<ret[1] - base[1], ret[2] - base[2], ret[3] - base[3]>>

\* the run hyperlinks with a target address that the call detached from
\* shapes that are still in the presentation
RunLinksDetached ==
    LET still(sh) == CHOOSE x \in AllShapes(doc) : x.eid = sh.eid
        lost(sh) == Cardinality({r.rid : r \in TargetRuns(sh)}
                                \ {r.rid : r \in TargetRuns(still(sh))})
    IN SumFn([sh \in {x \in AllShapes(input) : x.eid \in Eids(doc)} |-> lost(sh)])

-----------------------------------------------------------------------------
(* Properties *)

\* C1: after clean returns, no shape left in a master, layout or slide has a
\* click-hyperlink address that contains target_domain (case-insensitive).
C1_NoTargetClickLinkLeft ==
    Returned => \A sh \in AllShapes(doc) : ~HasTarget(sh.click)

\* C2: after clean returns, no run of a remaining shape has a hyperlink
\* address that contains target_domain.
C2_NoTargetRunLinkLeft ==
    Returned => \A sh \in AllShapes(doc) : TargetRuns(sh) = {}

\* C3: on every slide where some corner picture carries a target-domain
\* click link, every corner picture is gone after cleaning, and
\* cornerPicturesRemoved grew by the number of corner pictures of those slides.
C3_CornerSweepRemovesAll ==
    Returned =>
        LET hit == {i \in 1..NumSlides : CornerLinked(input, i)}
            count(i) == Cardinality(CornerPictures(input, i))
        IN /\ \A i \in hit : \A sh \in CornerPictures(input, i) : sh.eid \notin Eids(doc)
           /\ CallDelta[3] = SumFn([i \in hit |-> count(i)])

\* C4: cleaning the output of a cleaning run returns (0, 0, 0) and leaves
\* every shape set as it was.
C4_SecondRunRemovesNothing ==
    (Returned /\ reclean /\ FreshCounters) => (ret = <<0, 0, 0>> /\ doc = input)

\* C5 as stated: linksRemoved is the number of run-level hyperlinks detached;
\* deleting a shape for its own click link does not change it.
C5_LinksAreRunLinksOnly ==
    Returned => CallDelta[2] = RunLinksDetached

\* C5 as amended: linksRemoved grows by one for every run-level hyperlink
\* detached and by one for every shape-link test that finds a target-domain
\* click link: one per shape deleted by the link sweep, and one per corner
\* picture of a slide that carries such a link.
C5_LinksAlsoCountShapeLinks ==
    Returned =>
        LET linked(i) == Cardinality({sh \in CornerPictures(input, i) : HasTarget(sh.click)})
        IN CallDelta[2] = RunLinksDetached + CallDelta[1] + SumFn([i \in 1..NumSlides |-> linked(i)])

C5_Witness ==
    /\ Returned
    /\ CallDelta[1] >= 1
    /\ RunLinksDetached >= 1

\* C6: the triple a call returns counts the removals of that call only.
C6_TriplePerCall ==
    Returned =>
        ret = <<shapes_removed - base[1], links_removed - base[2],
                corner_images_removed - base[3]>>

C9_OnlyWatermarksDeleted ==
    Returned =>
        \A slot \in Slots : \A sh \in ShapesIn(input, slot[1], slot[2]) :
            sh.eid \notin Eids(doc) =>
                \/ HasTarget(sh.click)
                \/ /\ slot[1] = "slides"
                   /\ CornerLinked(input, slot[2])
                   /\ sh \in CornerPictures(input, slot[2])

\* C10: on a fresh cleaner, shapesRemoved + cornerPicturesRemoved is the
\* number of shapes the call deleted: each deleted shape is counted once.
C10_CountConservation ==
    (Returned /\ FreshCounters) =>
        ret[1] + ret[3] = ShapeCount(input) - ShapeCount(doc)

C10_Witness ==
    /\ Returned
    /\ FreshCounters
    /\ ret[3] = 1
    /\ ShapeCount(input) - ShapeCount(doc) = 1

\* C7: _strip_text_run_links clears the hyperlink of every run whose address
\* has the target domain and counts it; such a run keeps its place and text
\* when its text is not blank and is deleted when it is; other runs, and the
\* order of the runs, are unchanged.
C7_StripRuns ==
    pc = "stripped" =>
        LET out == stripOut[1].paras
            ridsOf(para) == [k \in 1..Len(para) |-> para[k].rid]
            kept(r) == ~(HasTarget(r.link) /\ Strip(r.text) = <<>>)
            after(r) == IF HasTarget(r.link) THEN [r EXCEPT !.link = NoLink] ELSE r
            matching(p) == Cardinality({k \in 1..Len(stripIn[p]) : HasTarget(stripIn[p][k].link)})
        IN /\ Len(out) = Len(stripIn)
           /\ \A p \in 1..Len(stripIn) :
                /\ ridsOf(out[p]) = ridsOf(SelectSeq(stripIn[p], kept))
                /\ \A k \in 1..Len(stripIn[p]) :
                     kept(stripIn[p][k]) =>
                        \E j \in 1..Len(out[p]) : out[p][j] = after(stripIn[p][k])
           /\ stripOut[1].removed = SumFn([p \in 1..Len(stripIn) |-> matching(p)])

C7_Witness ==
    /\ pc = "stripped"
    /\ stripOut[1].removed = 2
    /\ \E p \in 1..Len(stripIn) :
         /\ Len(stripIn[p]) = 2
         /\ Len(stripOut[1].paras[p]) = 1
         /\ stripOut[1].paras[p][1].text = TextWords
         /\ stripOut[1].paras[p][1].link = NoLink

====
